---- MODULE Spec2Model ----
(***************************************************************************)
(* pfcon/services.py: the API clients of the pman (job execution) and      *)
(* pfioh (data transfer) services.                                         *)
(*                                                                         *)
(* Python str values are TLA+ strings; a character is a string of length   *)
(* one (SubSeq(s, i, i)).  Python lists are sequences, dicts are records.  *)
(***************************************************************************)
EXTENDS Integers, Sequences, FiniteSets, TLC

VARIABLES g, constructed, returned, pc, op, args, payload, curl, buffer,
          outcome, trace

vars == <<g, constructed, returned, pc, op, args, payload, curl, buffer,
          outcome, trace>>

(***************************************************************************)
(* Bounds of the model.                                                    *)
(***************************************************************************)
\* longest token list of a generated cmd_args string
MaxArgs == 3
\* longest generated upload filename, in characters
MaxNameLen == 3

(***************************************************************************)
(* str helpers, as CPython computes them.                                  *)
(***************************************************************************)
Char(s, i) == SubSeq(s, i, i)

\* the characters str.split() with no separator treats as blanks
Whitespace == {" ", "\t"}

RECURSIVE SplitWsFrom(_, _, _, _)
SplitWsFrom(s, i, cur, acc) ==
    IF i > Len(s)
    THEN IF cur = "" THEN acc ELSE Append(acc, cur)
    ELSE IF Char(s, i) \in Whitespace
         THEN SplitWsFrom(s, i + 1, "", IF cur = "" THEN acc ELSE Append(acc, cur))
         ELSE SplitWsFrom(s, i + 1, cur \o Char(s, i), acc)

\* s.split(): the maximal runs of non-blank characters
str_split(s) == SplitWsFrom(s, 1, "", <<>>)

RECURSIVE SplitSepFrom(_, _, _, _, _)
SplitSepFrom(s, sep, i, cur, acc) ==
    IF i > Len(s)
    THEN Append(acc, cur)
    ELSE IF Char(s, i) = sep
         THEN SplitSepFrom(s, sep, i + 1, "", Append(acc, cur))
         ELSE SplitSepFrom(s, sep, i + 1, cur \o Char(s, i), acc)

\* s.split(sep) for a one-character sep: empty fields are kept
str_split_sep(s, sep) == SplitSepFrom(s, sep, 1, "", <<>>)

RECURSIVE str_join(_, _)
\* sep.join(parts)
str_join(sep, parts) ==
    IF Len(parts) = 0 THEN ""
    ELSE IF Len(parts) = 1 THEN parts[1]
    ELSE parts[1] \o sep \o str_join(sep, Tail(parts))

RECURSIVE str_replace(_, _, _)
\* s.replace(old, new) for a one-character old
str_replace(s, old, new) ==
    IF s = "" THEN ""
    ELSE (IF Char(s, 1) = old THEN new ELSE Char(s, 1))
         \o str_replace(SubSeq(s, 2, Len(s)), old, new)

RECURSIVE str_lstrip(_, _)
str_lstrip(s, chars) ==
    IF s # "" /\ Char(s, 1) \in chars
    THEN str_lstrip(SubSeq(s, 2, Len(s)), chars) ELSE s

RECURSIVE str_rstrip(_, _)
str_rstrip(s, chars) ==
    IF s # "" /\ Char(s, Len(s)) \in chars
    THEN str_rstrip(SubSeq(s, 1, Len(s) - 1), chars) ELSE s

\* s.strip(chars)
str_strip(s, chars) == str_rstrip(str_lstrip(s, chars), chars)

\* t in s, for strings
str_contains(s, t) ==
    \E i \in 1..(Len(s) - Len(t) + 1) : SubSeq(s, i, i + Len(t) - 1) = t

\* os.path.join(a, b) of posixpath, for two components
os_path_join(a, b) ==
    IF b # "" /\ Char(b, 1) = "/" THEN b
    ELSE IF a = "" \/ Char(a, Len(a)) = "/" THEN a \o b
    ELSE a \o "/" \o b

(***************************************************************************)
(* class Service                                                           *)
(***************************************************************************)
\* Service.__init__; oid is the identity of the constructed object
Service_init(name, base_url, oid) ==
    [NAME |-> name,
     base_url |-> base_url,
     str_app_container_inputdir |-> "/share/incoming",
     str_app_container_outputdir |-> "/share/outgoing",
     oid |-> oid]

(***************************************************************************)
(* PmanService.build_app_cmd                                               *)
(***************************************************************************)
RECURSIVE rewrite_loop_overwrites_flag(_, _, _, _)
\* rewrite_loop with an off-by-one index: the flag itself is overwritten
rewrite_loop_overwrites_flag(arglist, path_flags, i, inputdir) ==
    IF i > Len(arglist) - 1 THEN arglist
    ELSE rewrite_loop_overwrites_flag(
             IF \E k \in 1..Len(path_flags) : path_flags[k] = arglist[i]
             THEN [arglist EXCEPT ![i] = inputdir]
             ELSE arglist,
             path_flags, i + 1, inputdir)

RECURSIVE rewrite_loop(_, _, _, _)
\* for i in range(len(args) - 1): the list is updated in place, so the test
\* of args[i] reads what the previous iteration may have written
rewrite_loop(arglist, path_flags, i, inputdir) ==
    IF i > Len(arglist) - 1 THEN arglist
    ELSE rewrite_loop(IF \E k \in 1..Len(path_flags) : path_flags[k] = arglist[i]
                      THEN [arglist EXCEPT ![i + 1] = inputdir]
                      ELSE arglist,
                      path_flags, i + 1, inputdir)

\* lines 145-162: cmd_args after the processing of the path flags
process_path_flags(self, compute_data) ==
    IF compute_data.cmd_path_flags # ""
    THEN str_join(" ", rewrite_loop(str_split(compute_data.cmd_args),
                                    str_split_sep(compute_data.cmd_path_flags, ","),
                                    1, self.str_app_container_inputdir))
    ELSE compute_data.cmd_args

\* build_app_cmd with the two mount points of a ds plugin in the wrong order
build_app_cmd_dirs_swapped(self, compute_data) ==
    LET cmd_args == process_path_flags(self, compute_data)
        exec     == os_path_join(compute_data.selfpath, compute_data.selfexec)
        cmd      == compute_data.execshell \o " " \o exec
    IN  IF compute_data.type = "ds"
        THEN cmd \o " " \o self.str_app_container_outputdir \o " "
                 \o self.str_app_container_inputdir \o " " \o cmd_args
        ELSE IF compute_data.type \in {"fs", "ts"}
        THEN cmd \o " " \o self.str_app_container_outputdir \o " " \o cmd_args
        ELSE cmd

\* build_app_cmd with the ds branch taken for every supported type
build_app_cmd_inputdir_always(self, compute_data) ==
    LET cmd_args == process_path_flags(self, compute_data)
        exec     == os_path_join(compute_data.selfpath, compute_data.selfexec)
        cmd      == compute_data.execshell \o " " \o exec
    IN  IF compute_data.type \in {"ds", "fs", "ts"}
        THEN cmd \o " " \o self.str_app_container_inputdir \o " "
                 \o self.str_app_container_outputdir \o " " \o cmd_args
        ELSE cmd

\* build_app_cmd always returns: in the else branch the ServiceException is
\* constructed and dropped, not raised
build_app_cmd(self, compute_data) ==
    LET cmd_args  == process_path_flags(self, compute_data)
        outputdir == self.str_app_container_outputdir
        exec      == os_path_join(compute_data.selfpath, compute_data.selfexec)
        cmd       == compute_data.execshell \o " " \o exec
    IN  IF compute_data.type = "ds"
        THEN cmd \o " " \o self.str_app_container_inputdir \o " " \o outputdir
                 \o " " \o cmd_args
        ELSE IF compute_data.type \in {"fs", "ts"}
        THEN cmd \o " " \o outputdir \o " " \o cmd_args
        ELSE cmd


(***************************************************************************)
(* werkzeug.utils.secure_filename (posix), for ASCII file names            *)
(***************************************************************************)
Lower == {"a","b","c","d","e","f","g","h","i","j","k","l","m",
          "n","o","p","q","r","s","t","u","v","w","x","y","z"}
Upper == {"A","B","C","D","E","F","G","H","I","J","K","L","M",
          "N","O","P","Q","R","S","T","U","V","W","X","Y","Z"}
Digit == {"0","1","2","3","4","5","6","7","8","9"}

\* the characters the pattern [^A-Za-z0-9_.-] leaves in place
FilenameAsciiChars == Lower \cup Upper \cup Digit \cup {"_", ".", "-"}

RECURSIVE str_keep(_, _)
\* re.sub of every character outside chars by the empty string
str_keep(s, chars) ==
    IF s = "" THEN ""
    ELSE (IF Char(s, 1) \in chars THEN Char(s, 1) ELSE "")
         \o str_keep(SubSeq(s, 2, Len(s)), chars)

\* separators become blanks, blank runs become "_", unsafe characters are
\* dropped, leading and trailing dots and underscores are stripped
secure_filename(filename) ==
    str_strip(str_keep(str_join("_", str_split(str_replace(filename, "/", " "))),
                       FilenameAsciiChars),
              {".", "_"})

(***************************************************************************)
(* json and urllib.parse                                                   *)
(***************************************************************************)
\* json.dumps(obj): the text is represented by the document it encodes
json_dumps(obj) == [json_text |-> obj]

\* the response bodies json.loads accepts, with the value each decodes to
JsonDocs == {[text |-> "{\"status\": true}", value |-> [status |-> TRUE]],
             [text |-> "{\"status\": false}", value |-> [status |-> FALSE]]}

is_json(text) == \E d \in JsonDocs : d.text = text

json_loads(text) == (CHOOSE d \in JsonDocs : d.text = text).value

\* the characters quote_plus leaves unescaped
UrlSafeChars == Lower \cup Upper \cup Digit \cup {"_", ".", "-", "~"}

quote_char(c) ==
    IF c \in UrlSafeChars THEN c
    ELSE IF c = " " THEN "+"
    ELSE IF c = "{" THEN "%7B"
    ELSE IF c = "}" THEN "%7D"
    ELSE IF c = "'" THEN "%27"
    ELSE IF c = ":" THEN "%3A"
    ELSE IF c = "," THEN "%2C"
    ELSE IF c = "/" THEN "%2F"
    ELSE "%3F"

RECURSIVE quote_plus(_)
\* character by character; the string is halved to keep the recursion shallow
quote_plus(s) ==
    IF s = "" THEN ""
    ELSE IF Len(s) = 1 THEN quote_char(s)
    ELSE quote_plus(SubSeq(s, 1, Len(s) \div 2))
         \o quote_plus(SubSeq(s, Len(s) \div 2 + 1, Len(s)))

\* str() of the meta dict of pull_data's d_query
pull_meta_str(job_id) ==
    "{'remote': {'key': '" \o job_id \o "'}, 'local': {'path': '" \o job_id
    \o "', 'createDir': True}, 'specialHandling': {'op': 'plugin', 'cleanup': True}, "
    \o "'transport': {'mechanism': 'compress', 'compress': "
    \o "{'archive': 'zip', 'unpack': True, 'cleanup': True}}}"

\* urllib.parse.urlencode(d_query): key=value pairs of the top-level dict,
\* every value passed through str() and quote_plus
urlencode(d_query) ==
    "action=" \o quote_plus(d_query.action)
    \o "&meta=" \o quote_plus(pull_meta_str(d_query.meta.remote.key))

(***************************************************************************)
(* Inputs                                                                  *)
(***************************************************************************)
\* app.config
app_config == [COMPUTE_SERVICE_URL |-> "http://pman:5010/api/v1/cmd/",
               DATA_SERVICE_URL |-> "http://pfioh:5055/api/v1/cmd"]

\* pycurl.CONNECTTIMEOUT value
CONNECTTIMEOUT == 1000

JobIds == {"job1", "job42"}

ShareDirs == {"/store/key-a", "/store/key-b"}

\* compute_data['type']: the three plugin types and one that is none of them
PluginTypes == {"ds", "fs", "ts", "xx"}

ArgTokens == {"--dir", "-i", "/x/y", "--flag"}

TokenSeqs(n) == UNION {[1..k -> ArgTokens] : k \in 0..n}

\* cmd_args: token lists joined by one blank or by two
ArgStrings == {str_join(sep, toks) : toks \in TokenSeqs(MaxArgs), sep \in {" ", "  "}}

\* cmd_path_flags
PathFlagLists == {"", "--dir", "--dir,-i"}

\* (selfpath, selfexec, execshell)
ExecVariants == {<<"/app", "run.py", "python3">>,
                 <<"/app/", "run.py", "python3">>,
                 <<"", "run.py", "python3">>,
                 <<"/usr/src", "/app/run.py", "python3">>}

\* (auid, number_of_workers, cpu_limit, memory_limit, gpu_limit, image)
ResourceProfiles == {<<"cube", 1, 1000, 200, 0, "fnndsc/pl-simplefsapp">>,
                     <<"alice", 2, 2000, 400, 1, "fnndsc/pl-dircopy">>}

ComputeData(type, cmd_args, cmd_path_flags, exe, res) ==
    [type |-> type, cmd_args |-> cmd_args, cmd_path_flags |-> cmd_path_flags,
     selfpath |-> exe[1], selfexec |-> exe[2], execshell |-> exe[3],
     auid |-> res[1], number_of_workers |-> res[2], cpu_limit |-> res[3],
     memory_limit |-> res[4], gpu_limit |-> res[5], image |-> res[6]]

\* the descriptors build_app_cmd is applied to: every argument string with
\* the executable of the spec's example, and every executable with a few
\* argument strings
CmdDescriptors ==
    LET res == <<"cube", 1, 1000, 200, 0, "fnndsc/pl-simplefsapp">>
    IN  {ComputeData(t, a, f, <<"/app", "run.py", "python3">>, res) :
            t \in PluginTypes, a \in ArgStrings, f \in PathFlagLists}
        \cup
        {ComputeData(t, a, f, e, res) :
            t \in PluginTypes, a \in {"", "--dir /x/y --flag", " -i  --dir"},
            f \in PathFlagLists, e \in ExecVariants}

\* the descriptors run_job is called with
Descriptors ==
    {ComputeData(t, a, f, <<"/app", "run.py", "python3">>, r) :
        t \in PluginTypes, a \in {"", "--dir /x/y --flag"}, f \in {"", "--dir"},
        r \in ResourceProfiles}

FileChars == {".", "/", "a", " ", "_", "$"}

RECURSIVE StringsUpTo(_, _)
\* the strings over chars of at most n characters
StringsUpTo(chars, n) ==
    IF n = 0 THEN {""}
    ELSE LET shorter == StringsUpTo(chars, n - 1)
         IN  shorter \cup {s \o c : s \in shorter, c \in chars}

\* file_obj.filename
Filenames == StringsUpTo(FileChars, MaxNameLen)
             \cup {"../secret/data.zip", "../../etc/passwd", "data.zip"}

\* file_obj.read()
FileContents == {"PK-zip-bytes"}

\* what the service may answer
ResponseBodies == {"{\"status\": true}", "{\"status\": false}", "<html>502</html>"}

\* str(e) of the pycurl.error that curl_obj.perform() may raise
PycurlErrors == {"(7, 'Failed to connect')", "(28, 'Connection timed out')"}


(***************************************************************************)
(* State                                                                   *)
(*   g            flask's request-context namespace: service name -> object*)
(*   constructed  how many objects of each class were constructed          *)
(*   returned     what get_service_obj returned last, per class            *)
(*   pc           idle, perform_request, response or done                  *)
(*   op, args     the method in progress and its arguments                 *)
(*   payload      the request dict the method built                        *)
(*   curl         the pycurl.Curl handle of the call                       *)
(*   buffer       the io.BytesIO the response body is written to           *)
(*   outcome      what the method returned or raised                       *)
(*   trace        the handle and buffer events of the call, in order       *)
(***************************************************************************)
NoPayload == [action |-> "none"]

NoCurl == [state |-> "none", allocs |-> 0, performs |-> 0, closes |-> 0,
           failed |-> FALSE, detail |-> "",
           URL |-> "", CONNECTTIMEOUT |-> 0, POSTFIELDS |-> [unset |-> TRUE],
           HTTPHEADER |-> <<>>, HTTPPOST |-> <<>>, sink |-> ""]

NoOutcome == [kind |-> "none"]

NoArgs == [none |-> TRUE]

Init ==
    /\ g = <<>>
    /\ constructed = [s \in {"pman", "pfioh"} |-> 0]
    /\ returned = <<>>
    /\ pc = "idle"
    /\ op = "none"
    /\ args = NoArgs
    /\ payload = NoPayload
    /\ curl = NoCurl
    /\ buffer = ""
    /\ outcome = NoOutcome
    /\ trace = <<>>

\* the service a method's self belongs to
ServiceOf(o) == IF o \in {"push_data", "pull_data"} THEN "pfioh" ELSE "pman"

(***************************************************************************)
(* get_service_obj                                                         *)
(***************************************************************************)
\* get_service_obj without the test of g: every call constructs an object
get_service_obj_always_new(name, url) ==
    /\ pc = "idle"
    /\ g' = (name :> Service_init(name, url, constructed[name] + 1)) @@ g
    /\ constructed' = [constructed EXCEPT ![name] = @ + 1]
    /\ returned' = (name :> g'[name]) @@ returned
    /\ UNCHANGED <<pc, op, args, payload, curl, buffer, outcome, trace>>

get_service_obj(name, url) ==
    /\ pc = "idle"
    /\ IF name \notin DOMAIN g
       THEN /\ g' = (name :> Service_init(name, url, constructed[name] + 1)) @@ g
            /\ constructed' = [constructed EXCEPT ![name] = @ + 1]
       ELSE UNCHANGED <<g, constructed>>
    /\ returned' = (name :> g'[name]) @@ returned
    /\ UNCHANGED <<pc, op, args, payload, curl, buffer, outcome, trace>>

PmanService_get_service_obj ==
    get_service_obj("pman", app_config.COMPUTE_SERVICE_URL)

PfiohService_get_service_obj ==
    get_service_obj("pfioh", app_config.DATA_SERVICE_URL)

(***************************************************************************)
(* PmanService                                                             *)
(***************************************************************************)
\* c = pycurl.Curl() and the setopt calls of do_POST, up to perform_request
do_POST_curl(self, request) ==
    [NoCurl EXCEPT !.state = "open", !.allocs = 1,
                   !.CONNECTTIMEOUT = CONNECTTIMEOUT,
                   !.URL = self.base_url,
                   !.sink = "WRITEFUNCTION",
                   !.POSTFIELDS = json_dumps([payload |-> request])]

\* run_job's payload without the assignment of line 99: the placeholder stays
run_job_payload_placeholder(self, job_id, compute_data, data_share_dir) ==
    [action |-> "run",
     meta |-> [cmd |-> build_app_cmd(self, compute_data),
               threaded |-> TRUE,
               auid |-> compute_data.auid,
               jid |-> job_id,
               number_of_workers |-> compute_data.number_of_workers,
               cpu_limit |-> compute_data.cpu_limit,
               memory_limit |-> compute_data.memory_limit,
               gpu_limit |-> compute_data.gpu_limit,
               container |->
                 [target |-> [image |-> compute_data.image,
                              cmdParse |-> FALSE,
                              selfexec |-> compute_data.selfexec,
                              selfpath |-> compute_data.selfpath,
                              execshell |-> compute_data.execshell],
                  manager |-> [image |-> "fnndsc/swarm",
                               app |-> "swarm.py",
                               env |-> [meta_store |-> "key",
                                        serviceType |-> "docker",
                                        shareDir |-> "%shareDir",
                                        serviceName |-> job_id]]]]]

\* the payload dict of run_job, after shareDir is assigned
run_job_payload(self, job_id, compute_data, data_share_dir) ==
    LET env == [meta_store |-> "key", serviceType |-> "docker",
                shareDir |-> "%shareDir", serviceName |-> job_id]
    IN  [action |-> "run",
         meta |-> [cmd |-> build_app_cmd(self, compute_data),
                   threaded |-> TRUE,
                   auid |-> compute_data.auid,
                   jid |-> job_id,
                   number_of_workers |-> compute_data.number_of_workers,
                   cpu_limit |-> compute_data.cpu_limit,
                   memory_limit |-> compute_data.memory_limit,
                   gpu_limit |-> compute_data.gpu_limit,
                   container |->
                     [target |-> [image |-> compute_data.image,
                                  cmdParse |-> FALSE,
                                  selfexec |-> compute_data.selfexec,
                                  selfpath |-> compute_data.selfpath,
                                  execshell |-> compute_data.execshell],
                      manager |-> [image |-> "fnndsc/swarm",
                                   app |-> "swarm.py",
                                   env |-> [env EXCEPT !.shareDir = data_share_dir]]]]]

get_job_payload(job_id) ==
    [action |-> "status", meta |-> [key |-> "jid", value |-> job_id]]

\* do_POST up to the call of perform_request
do_POST(self, request) ==
    /\ payload' = request
    /\ curl' = do_POST_curl(self, request)
    /\ buffer' = ""
    /\ trace' = <<"Curl", "setopt">>
    /\ outcome' = NoOutcome
    /\ pc' = "perform_request"

run_job(job_id, compute_data, data_share_dir) ==
    /\ pc = "idle"
    /\ "pman" \in DOMAIN g
    /\ op' = "run_job"
    /\ args' = [job_id |-> job_id, compute_data |-> compute_data,
                data_share_dir |-> data_share_dir]
    /\ do_POST(g["pman"], run_job_payload(g["pman"], job_id, compute_data, data_share_dir))
    /\ UNCHANGED <<g, constructed, returned>>

get_job(job_id) ==
    /\ pc = "idle"
    /\ "pman" \in DOMAIN g
    /\ op' = "get_job"
    /\ args' = [job_id |-> job_id]
    /\ do_POST(g["pman"], get_job_payload(job_id))
    /\ UNCHANGED <<g, constructed, returned>>

\* the body is pass: the method returns None
delete_job(job_id) ==
    /\ pc = "idle"
    /\ "pman" \in DOMAIN g
    /\ op' = "delete_job"
    /\ args' = [job_id |-> job_id]
    /\ outcome' = [kind |-> "return", value |-> "None"]
    /\ pc' = "done"
    /\ UNCHANGED <<g, constructed, returned, payload, curl, buffer, trace>>

\* a direct call of build_app_cmd on the service object
call_build_app_cmd(compute_data) ==
    /\ pc = "idle"
    /\ "pman" \in DOMAIN g
    /\ op' = "build_app_cmd"
    /\ args' = [compute_data |-> compute_data]
    /\ outcome' = [kind |-> "return", value |-> build_app_cmd(g["pman"], compute_data)]
    /\ pc' = "done"
    /\ UNCHANGED <<g, constructed, returned, payload, curl, buffer, trace>>

(***************************************************************************)
(* PfiohService                                                            *)
(***************************************************************************)
TransportBlock ==
    [mechanism |-> "compress",
     compress |-> [archive |-> "zip", unpack |-> TRUE, cleanup |-> TRUE]]

push_data_payload(job_id, fname) ==
    [action |-> "pushPath",
     meta |-> [remote |-> [key |-> job_id],
               local |-> [path |-> fname],
               specialHandling |-> [op |-> "plugin", cleanup |-> TRUE],
               transport |-> TransportBlock]]

\* the multipart fields of push_data: (name, value) and (name, buffer name, bytes)
push_data_httppost(request, fname, content) ==
    <<[name |-> "d_msg", value |-> json_dumps(request)],
      [name |-> "filename", value |-> fname],
      [name |-> "local", FORM_BUFFER |-> fname, FORM_BUFFERPTR |-> content]>>

\* the upload's file name used as it came from the caller
push_data_fname_raw(file_obj) == file_obj.filename

\* line 196: fname = secure_filename(file_obj.filename)
push_data_fname(file_obj) == secure_filename(file_obj.filename)

push_data(job_id, file_obj) ==
    LET self    == g["pfioh"]
        fname   == push_data_fname(file_obj)
        request == push_data_payload(job_id, fname)
    IN  /\ pc = "idle"
        /\ "pfioh" \in DOMAIN g
        /\ op' = "push_data"
        /\ args' = [job_id |-> job_id, file_obj |-> file_obj]
        /\ payload' = request
        /\ curl' = [NoCurl EXCEPT !.state = "open", !.allocs = 1,
                                  !.CONNECTTIMEOUT = CONNECTTIMEOUT,
                                  !.URL = self.base_url,
                                  !.HTTPHEADER = <<"Mode: file">>,
                                  !.HTTPPOST = push_data_httppost(request, fname,
                                                                  file_obj.content),
                                  !.sink = "WRITEFUNCTION"]
        /\ buffer' = ""
        /\ trace' = <<"Curl", "setopt">>
        /\ outcome' = NoOutcome
        /\ pc' = "perform_request"
        /\ UNCHANGED <<g, constructed, returned>>

pull_data_query(job_id) ==
    [action |-> "pullPath",
     meta |-> [remote |-> [key |-> job_id],
               local |-> [path |-> job_id, createDir |-> TRUE],
               specialHandling |-> [op |-> "plugin", cleanup |-> TRUE],
               transport |-> TransportBlock]]

pull_data(job_id) ==
    LET self    == g["pfioh"]
        d_query == pull_data_query(job_id)
    IN  /\ pc = "idle"
        /\ "pfioh" \in DOMAIN g
        /\ op' = "pull_data"
        /\ args' = [job_id |-> job_id]
        /\ payload' = d_query
        /\ curl' = [NoCurl EXCEPT !.state = "open", !.allocs = 1,
                                  !.CONNECTTIMEOUT = CONNECTTIMEOUT,
                                  !.URL = self.base_url \o "?" \o urlencode(d_query),
                                  !.sink = "WRITEDATA"]
        /\ buffer' = ""
        /\ trace' = <<"Curl", "setopt">>
        /\ outcome' = NoOutcome
        /\ pc' = "perform_request"
        /\ UNCHANGED <<g, constructed, returned>>

(***************************************************************************)
(* Service.perform_request                                                 *)
(***************************************************************************)
\* the message of the ServiceException perform_request raises
error_msg(self, detail) ==
    "Error in talking to " \o self.NAME \o " service, detail: " \o detail

\* perform_request without the except clause: the pycurl.error propagates
perform_request_raw_error ==
    LET self == g[ServiceOf(op)]
    IN  /\ pc = "perform_request"
        /\ \/ \E body \in ResponseBodies :
                /\ buffer' = body
                /\ curl' = [curl EXCEPT !.performs = @ + 1, !.closes = @ + 1,
                                        !.state = "closed"]
                /\ trace' = trace \o <<"perform", "close">>
                /\ pc' = "response"
                /\ UNCHANGED outcome
           \/ \E detail \in PycurlErrors :
                /\ curl' = [curl EXCEPT !.performs = @ + 1, !.closes = @ + 1,
                                        !.state = "closed", !.failed = TRUE,
                                        !.detail = detail]
                /\ outcome' = [kind |-> "raise", exc |-> "pycurl.error", msg |-> detail]
                /\ trace' = trace \o <<"perform", "close", "raise">>
                /\ pc' = "done"
                /\ UNCHANGED buffer
        /\ UNCHANGED <<g, constructed, returned, op, args, payload>>

\* perform_request closing the handle only after a successful perform
perform_request_no_finally ==
    LET self == g[ServiceOf(op)]
    IN  /\ pc = "perform_request"
        /\ \/ \E body \in ResponseBodies :
                /\ buffer' = body
                /\ curl' = [curl EXCEPT !.performs = @ + 1, !.closes = @ + 1,
                                        !.state = "closed"]
                /\ trace' = trace \o <<"perform", "close">>
                /\ pc' = "response"
                /\ UNCHANGED outcome
           \/ \E detail \in PycurlErrors :
                /\ curl' = [curl EXCEPT !.performs = @ + 1, !.failed = TRUE,
                                        !.detail = detail]
                /\ outcome' = [kind |-> "raise", exc |-> "ServiceException",
                               msg |-> error_msg(self, detail)]
                /\ trace' = trace \o <<"perform", "raise">>
                /\ pc' = "done"
                /\ UNCHANGED buffer
        /\ UNCHANGED <<g, constructed, returned, op, args, payload>>

\* perform_request trying a failed perform a second time
perform_request_retry ==
    LET self == g[ServiceOf(op)]
    IN  /\ pc = "perform_request"
        /\ \/ \E body \in ResponseBodies :
                /\ buffer' = body
                /\ curl' = [curl EXCEPT !.performs = @ + 1, !.closes = @ + 1,
                                        !.state = "closed"]
                /\ trace' = trace \o <<"perform", "close">>
                /\ pc' = "response"
                /\ UNCHANGED outcome
           \/ \E detail \in PycurlErrors :
                /\ curl' = [curl EXCEPT !.performs = @ + 2, !.closes = @ + 1,
                                        !.state = "closed", !.failed = TRUE,
                                        !.detail = detail]
                /\ outcome' = [kind |-> "raise", exc |-> "ServiceException",
                               msg |-> error_msg(self, detail)]
                /\ trace' = trace \o <<"perform", "perform", "close", "raise">>
                /\ pc' = "done"
                /\ UNCHANGED buffer
        /\ UNCHANGED <<g, constructed, returned, op, args, payload>>

\* try: curl_obj.perform()  except pycurl.error: raise ServiceException
\* finally: curl_obj.close()
perform_request ==
    LET self == g[ServiceOf(op)]
    IN  /\ pc = "perform_request"
        /\ \/ \E body \in ResponseBodies :
                /\ buffer' = body
                /\ curl' = [curl EXCEPT !.performs = @ + 1, !.closes = @ + 1,
                                        !.state = "closed"]
                /\ trace' = trace \o <<"perform", "close">>
                /\ pc' = "response"
                /\ UNCHANGED outcome
           \/ \E detail \in PycurlErrors :
                /\ curl' = [curl EXCEPT !.performs = @ + 1, !.closes = @ + 1,
                                        !.state = "closed", !.failed = TRUE,
                                        !.detail = detail]
                /\ outcome' = [kind |-> "raise", exc |-> "ServiceException",
                               msg |-> error_msg(self, detail)]
                /\ trace' = trace \o <<"perform", "close", "raise">>
                /\ pc' = "done"
                /\ UNCHANGED buffer
        /\ UNCHANGED <<g, constructed, returned, op, args, payload>>

\* after perform_request has returned: do_POST and push_data decode and parse
\* the buffer, pull_data returns its bytes
read_response ==
    /\ pc = "response"
    /\ IF op = "pull_data"
       THEN /\ outcome' = [kind |-> "return", value |-> buffer]
            /\ trace' = trace \o <<"getvalue", "return">>
       ELSE IF is_json(buffer)
       THEN /\ outcome' = [kind |-> "return", value |-> json_loads(buffer)]
            /\ trace' = trace \o <<"getvalue", "loads", "return">>
       ELSE /\ outcome' = [kind |-> "raise", exc |-> "JSONDecodeError", msg |-> buffer]
            /\ trace' = trace \o <<"getvalue", "loads", "raise">>
    /\ pc' = "done"
    /\ UNCHANGED <<g, constructed, returned, op, args, payload, curl, buffer>>

\* the call is over: its locals are gone, the caller goes on in the same
\* request context
caller_continues ==
    /\ pc = "done"
    /\ pc' = "idle"
    /\ op' = "none"
    /\ args' = NoArgs
    /\ payload' = NoPayload
    /\ curl' = NoCurl
    /\ buffer' = ""
    /\ outcome' = NoOutcome
    /\ trace' = <<>>
    /\ UNCHANGED <<g, constructed, returned>>

(***************************************************************************)
(* Specifications                                                          *)
(***************************************************************************)
FileObjs == {[filename |-> f, content |-> c] : f \in Filenames, c \in FileContents}

Next ==
    \/ PmanService_get_service_obj
    \/ PfiohService_get_service_obj
    \/ \E j \in JobIds, d \in Descriptors, s \in ShareDirs : run_job(j, d, s)
    \/ \E j \in JobIds : get_job(j)
    \/ \E j \in JobIds : delete_job(j)
    \/ \E d \in Descriptors : call_build_app_cmd(d)
    \/ \E j \in JobIds, f \in FileObjs : push_data(j, f)
    \/ \E j \in JobIds : pull_data(j)
    \/ perform_request
    \/ read_response
    \/ caller_continues

Spec == Init /\ [][Next]_vars

\* build_app_cmd applied to every descriptor of CmdDescriptors
NextCmd ==
    \/ PmanService_get_service_obj
    \/ \E d \in CmdDescriptors : call_build_app_cmd(d)
    \/ caller_continues

SpecCmd == Init /\ [][NextCmd]_vars


(***************************************************************************)
(* The command builder: C1, C2, C3, C4                                     *)
(***************************************************************************)
\* a build_app_cmd call has returned; its descriptor and its result
CmdDone == op = "build_app_cmd" /\ pc = "done"

CmdIn == args.compute_data

CmdOut == outcome.value

StartsWith(s, p) == Len(p) <= Len(s) /\ SubSeq(s, 1, Len(p)) = p

After(s, p) == SubSeq(s, Len(p) + 1, Len(s))

\* the recognized flags: the comma-separated fields of cmd_path_flags
FlagSet(d) ==
    LET fl == str_split_sep(d.cmd_path_flags, ",") IN {fl[k] : k \in 1..Len(fl)}

\* the rewriting stated position by position: a token is replaced by the
\* input directory when the token before it, as it stands in the result, is
\* a recognized flag
RewrittenTokens(orig, flags) ==
    LET r[i \in 1..Len(orig)] ==
            IF i = 1 THEN orig[1]
            ELSE IF r[i - 1] \in flags THEN "/share/incoming" ELSE orig[i]
    IN  [i \in 1..Len(orig) |-> r[i]]

\* the argument string a command must end with
ExpectedArgs(d) ==
    IF d.cmd_path_flags = "" THEN d.cmd_args
    ELSE str_join(" ", RewrittenTokens(str_split(d.cmd_args), FlagSet(d)))

\* shell, blank, path-join(selfpath, selfexec)
BaseInvocation(d) == d.execshell \o " " \o os_path_join(d.selfpath, d.selfexec)

IsSpecExample(d) ==
    /\ d.cmd_args = "--dir /x/y --flag" /\ d.cmd_path_flags = "--dir"
    /\ d.selfpath = "/app" /\ d.selfexec = "run.py" /\ d.execshell = "python3"

\* C1: for a descriptor of type ds the command is shell+executable, the input
\* directory, the output directory and the (rewritten) argument string, in
\* this order and separated by single blanks; the descriptor of the spec's
\* example yields the command the spec gives.
C1_DsCommandOrder ==
    (CmdDone /\ CmdIn.type = "ds") =>
        /\ outcome.kind = "return"
        /\ CmdOut = BaseInvocation(CmdIn) \o " " \o "/share/incoming" \o " "
                    \o "/share/outgoing" \o " " \o ExpectedArgs(CmdIn)
        /\ IsSpecExample(CmdIn) =>
             CmdOut = "python3 /app/run.py /share/incoming /share/outgoing --dir /share/incoming --flag"

C1_Witness ==
    /\ CmdDone /\ CmdIn.type = "ds" /\ IsSpecExample(CmdIn)
    /\ CmdOut = "python3 /app/run.py /share/incoming /share/outgoing --dir /share/incoming --flag"

\* C2 as claimed: for a descriptor of type fs or ts the command is
\* shell+executable, the output directory and the arguments, and the input
\* directory occurs nowhere in it.
C2_InputDirNowhere ==
    (CmdDone /\ CmdIn.type \in {"fs", "ts"}) =>
        /\ CmdOut = BaseInvocation(CmdIn) \o " " \o "/share/outgoing" \o " "
                    \o ExpectedArgs(CmdIn)
        /\ ~ str_contains(CmdOut, "/share/incoming")

\* a recognized flag stands before another token of the argument string
SomeFlagHasValue(d) ==
    /\ d.cmd_path_flags # ""
    /\ LET toks == str_split(d.cmd_args)
       IN  \E i \in 1..(Len(toks) - 1) : toks[i] \in FlagSet(d)

\* C2 amended: for a descriptor of type fs or ts the command is
\* shell+executable, the output directory and the (rewritten) arguments; the
\* input directory is never the positional argument after the executable,
\* and it occurs in the argument part exactly when a recognized path flag
\* followed by a token was rewritten or the caller's arguments contained it.
C2_FsTsCommand ==
    (CmdDone /\ CmdIn.type \in {"fs", "ts"}) =>
        LET base == BaseInvocation(CmdIn)
            tail == After(CmdOut, base \o " " \o "/share/outgoing" \o " ")
        IN  /\ outcome.kind = "return"
            /\ CmdOut = base \o " " \o "/share/outgoing" \o " " \o ExpectedArgs(CmdIn)
            /\ ~ StartsWith(After(CmdOut, base), " /share/incoming")
            /\ str_contains(tail, "/share/incoming")
                 <=> (SomeFlagHasValue(CmdIn)
                      \/ str_contains(CmdIn.cmd_args, "/share/incoming"))

C2_Witness ==
    /\ CmdDone /\ CmdIn.type = "fs"
    /\ CmdIn.cmd_path_flags = "--dir" /\ CmdIn.cmd_args = "--dir /x/y"
    /\ CmdOut = BaseInvocation(CmdIn) \o " /share/outgoing --dir /share/incoming"

\* C3: for a plugin type outside ds, fs, ts build_app_cmd fails with an error
\* instead of returning a command, and run_job ends in that error without a
\* transport handle being allocated or performed.
C3_UnsupportedTypeFails ==
    /\ (CmdDone /\ CmdIn.type \notin {"ds", "fs", "ts"}) => outcome.kind = "raise"
    /\ (op = "run_job" /\ args.compute_data.type \notin {"ds", "fs", "ts"}) =>
          /\ curl.allocs = 0 /\ curl.performs = 0
          /\ pc = "done" => outcome.kind = "raise"

\* the tokens of the argument part of a returned command of a supported type
ResultTokens ==
    LET prefix == BaseInvocation(CmdIn)
                  \o (IF CmdIn.type = "ds" THEN " /share/incoming" ELSE "")
                  \o " /share/outgoing "
    IN  str_split(After(CmdOut, prefix))

RewriteDone ==
    CmdDone /\ CmdIn.type \in {"ds", "fs", "ts"} /\ CmdIn.cmd_path_flags # ""

\* C4 as claimed: the token at position i+1 of the result is the input
\* directory if and only if the token at position i of the original argument
\* string is a recognized flag; every other token is unchanged; the number
\* and order of the tokens are kept.
C4_RewriteByOriginalFlags ==
    RewriteDone =>
        LET orig == str_split(CmdIn.cmd_args)
            res  == ResultTokens
        IN  /\ Len(res) = Len(orig)
            /\ Len(orig) > 0 => res[1] = orig[1]
            /\ \A i \in 1..(Len(orig) - 1) :
                 /\ res[i + 1] = "/share/incoming" <=> orig[i] \in FlagSet(CmdIn)
                 /\ orig[i] \notin FlagSet(CmdIn) => res[i + 1] = orig[i + 1]

\* C4 amended: the token at position i+1 of the result is the input directory
\* if and only if the token at position i of the result (as left by the
\* rewriting of the earlier positions) is a recognized flag, or the original
\* token at i+1 was the input directory already; every other token is
\* unchanged; the number and order of the tokens are kept.  A recognized flag
\* that was itself overwritten as the value of the flag before it rewrites
\* nothing.
C4_RewriteByScannedFlags ==
    RewriteDone =>
        LET orig == str_split(CmdIn.cmd_args)
            res  == ResultTokens
        IN  /\ Len(res) = Len(orig)
            /\ Len(orig) > 0 => res[1] = orig[1]
            /\ \A i \in 1..(Len(orig) - 1) :
                 /\ res[i + 1] = "/share/incoming"
                      <=> (res[i] \in FlagSet(CmdIn) \/ orig[i + 1] = "/share/incoming")
                 /\ res[i] \notin FlagSet(CmdIn) => res[i + 1] = orig[i + 1]

\* two recognized flags in a row and a recognized flag as the last token
C4_Witness ==
    /\ RewriteDone
    /\ CmdIn.cmd_path_flags = "--dir,-i"
    /\ str_split(CmdIn.cmd_args) = <<"--dir", "-i", "--dir">>
    /\ ResultTokens = <<"--dir", "/share/incoming", "--dir">>


(***************************************************************************)
(* The transport: C5, C6, C7                                               *)
(***************************************************************************)
\* the methods that perform a network exchange
NetworkOps == {"run_job", "get_job", "push_data", "pull_data"}

\* the service each method talks to
NameOfService(o) == IF o \in {"run_job", "get_job"} THEN "pman" ELSE "pfioh"

Occurrences(e) == Cardinality({i \in 1..Len(trace) : trace[i] = e})

\* C5: when the transport fails during the exchange of run_job, get_job,
\* push_data or pull_data, the call ends by raising ServiceException with a
\* message that names the service (pman for run_job and get_job, pfioh for
\* push_data and pull_data) and carries the cause; the pycurl error does not
\* reach the caller and no response is read, parsed or returned.
C5_TransportFailureWrapped ==
    (op \in NetworkOps /\ curl.failed) =>
        /\ pc = "done"
        /\ outcome.kind = "raise"
        /\ outcome.exc = "ServiceException"
        /\ str_contains(outcome.msg, NameOfService(op))
        /\ str_contains(outcome.msg, curl.detail)
        /\ Occurrences("getvalue") = 0 /\ Occurrences("loads") = 0
        /\ Occurrences("return") = 0
        /\ (op = "get_job" /\ args.job_id = "job1") =>
              str_contains(outcome.msg, "pman") /\ ~ str_contains(outcome.msg, "pfioh")

C5_Witness ==
    /\ op = "get_job" /\ args.job_id = "job1" /\ curl.failed /\ pc = "done"
    /\ outcome.msg = "Error in talking to pman service, detail: (28, 'Connection timed out')"

\* C6: the handle given to perform_request is closed exactly once before
\* perform_request returns or raises, after a successful and after a failed
\* perform; once the call is past perform_request no handle of it is open,
\* and the response buffer is read only after the close.
C6_HandleClosedOnce ==
    /\ curl.closes <= 1
    /\ (op \in NetworkOps /\ pc = "perform_request") =>
          curl.state = "open" /\ curl.closes = 0
    /\ (op \in NetworkOps /\ pc \in {"response", "done"}) =>
          /\ curl.state = "closed" /\ curl.closes = 1 /\ curl.allocs = 1
          /\ Occurrences("close") = 1
    /\ \A i \in 1..Len(trace) :
          trace[i] \in {"getvalue", "raise", "return"} =>
              \E j \in 1..(i - 1) : trace[j] = "close"

C6_Witness ==
    /\ op = "push_data" /\ pc = "done" /\ curl.failed
    /\ curl.state = "closed" /\ curl.closes = 1
    /\ trace = <<"Curl", "setopt", "perform", "close", "raise">>

\* C7: a call of run_job, get_job, push_data or pull_data performs exactly one
\* exchange on the one handle it allocated; a failed exchange is not
\* repeated and is raised right after the single attempt; delete_job
\* allocates no handle and performs no exchange.
C7_ExactlyOneExchange ==
    /\ curl.allocs <= 1 /\ curl.performs <= 1
    /\ curl.performs = Occurrences("perform")
    /\ curl.allocs = Occurrences("Curl")
    /\ (op \in NetworkOps /\ pc = "perform_request") =>
          curl.allocs = 1 /\ curl.performs = 0
    /\ (op \in NetworkOps /\ pc \in {"response", "done"}) =>
          curl.allocs = 1 /\ curl.performs = 1
    /\ curl.failed =>
          /\ pc = "done" /\ outcome.kind = "raise"
          /\ trace = <<"Curl", "setopt", "perform", "close", "raise">>
    /\ op = "delete_job" =>
          /\ curl.allocs = 0 /\ curl.performs = 0 /\ trace = <<>>
          /\ pc = "done" /\ outcome = [kind |-> "return", value |-> "None"]

C7_Witness ==
    /\ op = "pull_data" /\ pc = "done" /\ curl.failed
    /\ curl.performs = 1 /\ Occurrences("perform") = 1

(***************************************************************************)
(* The requests: C8, C9                                                    *)
(***************************************************************************)
\* the three places of the multipart exchange that carry the file name
PushNamesAgree(name) ==
    /\ curl.HTTPPOST[1].name = "d_msg"
    /\ curl.HTTPPOST[1].value.json_text.meta.local.path = name
    /\ curl.HTTPPOST[2] = [name |-> "filename", value |-> name]
    /\ curl.HTTPPOST[3].name = "local"
    /\ curl.HTTPPOST[3].FORM_BUFFER = name

\* no directory component and no traversal: no separator, not . nor ..
BareName(name) == ~ str_contains(name, "/") /\ name \notin {".", ".."}

PushRequestShape(name) ==
    LET sent == curl.HTTPPOST[1].value.json_text
    IN  /\ PushNamesAgree(name)
        /\ BareName(name)
        /\ name # args.file_obj.filename =>
              \A k \in 2..3 : \A f \in DOMAIN curl.HTTPPOST[k] :
                  curl.HTTPPOST[k][f] # args.file_obj.filename
        /\ sent.action = "pushPath"
        /\ sent.meta.remote.key = args.job_id

\* C8 as claimed: in every push_data call the three places carry the same
\* sanitized name, which has no directory component or traversal sequence,
\* the raw name is not transmitted, the request has action pushPath and
\* remote key job id; job42 with ../secret/data.zip transmits data.zip.
C8_PushSanitizedToBasename ==
    op = "push_data" =>
        LET name == payload.meta.local.path
        IN  /\ PushRequestShape(name)
            /\ (args.job_id = "job42" /\ args.file_obj.filename = "../secret/data.zip")
                  => name = "data.zip"

\* C8 amended: as claimed, except that the sanitized name keeps the names of
\* the directories, joined to the file name by underscores: job42 with
\* ../secret/data.zip transmits secret_data.zip.  The name has no separator,
\* no unsafe character and neither starts nor ends with a dot.
C8_PushSanitized ==
    op = "push_data" =>
        LET name == payload.meta.local.path
        IN  /\ PushRequestShape(name)
            /\ \A i \in 1..Len(name) : Char(name, i) \in FilenameAsciiChars
            /\ name # "" => Char(name, 1) # "." /\ Char(name, Len(name)) # "."
            /\ (args.job_id = "job42" /\ args.file_obj.filename = "../secret/data.zip")
                  => name = "secret_data.zip"

C8_Witness ==
    /\ op = "push_data" /\ pc = "response" /\ curl.performs = 1
    /\ args.job_id = "job42" /\ args.file_obj.filename = "../secret/data.zip"
    /\ curl.HTTPPOST[3].FORM_BUFFER = "secret_data.zip"

\* the request do_POST put on the wire
SentRequest == curl.POSTFIELDS.json_text.payload

\* C9: the request of run_job(job_id, descriptor, share dir) has action run,
\* the command build_app_cmd gives for the descriptor, jid and serviceName
\* equal to job_id, shareDir equal to the given share dir and not the
\* placeholder, and the descriptor's user, workers, limits and image; it is
\* sent wrapped as {payload: request}.  get_job(job_id) sends action status
\* with key jid and value job_id.
C9_RequestContents ==
    /\ op = "run_job" =>
          LET d   == args.compute_data
              m   == SentRequest.meta
              env == m.container.manager.env
          IN  /\ DOMAIN curl.POSTFIELDS.json_text = {"payload"}
              /\ SentRequest.action = "run"
              /\ m.cmd = build_app_cmd(g["pman"], d)
              /\ m.jid = args.job_id
              /\ env.serviceName = args.job_id
              /\ env.shareDir = args.data_share_dir
              /\ env.shareDir # "%shareDir"
              /\ m.auid = d.auid
              /\ m.number_of_workers = d.number_of_workers
              /\ m.cpu_limit = d.cpu_limit
              /\ m.memory_limit = d.memory_limit
              /\ m.gpu_limit = d.gpu_limit
              /\ m.container.target.image = d.image
    /\ op = "get_job" =>
          /\ DOMAIN curl.POSTFIELDS.json_text = {"payload"}
          /\ SentRequest = [action |-> "status",
                            meta |-> [key |-> "jid", value |-> args.job_id]]

C9_Witness ==
    /\ op = "run_job" /\ pc = "response" /\ curl.performs = 1
    /\ args.job_id = "job42" /\ args.data_share_dir = "/store/key-b"
    /\ args.compute_data.auid = "alice"
    /\ SentRequest.meta.container.manager.env.shareDir = "/store/key-b"
    /\ SentRequest.meta.cmd = "python3 /app/run.py /share/incoming /share/outgoing --dir /share/incoming --flag"

(***************************************************************************)
(* The request context: C10                                                *)
(***************************************************************************)
ConfiguredUrl(s) ==
    IF s = "pman" THEN "http://pman:5010/api/v1/cmd/" ELSE "http://pfioh:5055/api/v1/cmd"

\* C10: in one request context each service has at most one handle: the
\* first get_service_obj constructs it from the configured base URL and
\* every later call returns that same object; no operation changes its base
\* URL or its two mount paths, and every exchange goes to the configured
\* URL whatever ran before.
C10_OneHandlePerService ==
    /\ \A s \in {"pman", "pfioh"} :
          /\ constructed[s] <= 1
          /\ s \in DOMAIN g <=> constructed[s] = 1
    /\ \A s \in DOMAIN g :
          g[s] = [NAME |-> s, base_url |-> ConfiguredUrl(s),
                  str_app_container_inputdir |-> "/share/incoming",
                  str_app_container_outputdir |-> "/share/outgoing",
                  oid |-> 1]
    /\ \A s \in DOMAIN returned : s \in DOMAIN g /\ returned[s] = g[s]
    /\ op \in {"run_job", "get_job", "push_data"} =>
          curl.URL = ConfiguredUrl(NameOfService(op))
    /\ op = "pull_data" => StartsWith(curl.URL, ConfiguredUrl("pfioh") \o "?action=pullPath&meta=")

C10_Witness ==
    /\ DOMAIN g = {"pman", "pfioh"} /\ DOMAIN returned = {"pman", "pfioh"}
    /\ constructed["pman"] = 1 /\ constructed["pfioh"] = 1
    /\ returned["pman"] = g["pman"] /\ returned["pfioh"] = g["pfioh"]
    /\ op = "pull_data" /\ pc = "done" /\ outcome.kind = "return"

====
